---------------------------- MODULE Spec2Model ----------------------------
(***************************************************************************)
(* Model of main.py: a generate / check / rewrite loop around a hosted     *)
(* chat-completion endpoint.                                               *)
(*                                                                         *)
(* Python strings are sequences of one-character strings; a Python value   *)
(* that may be None is a record [t, v] with t in {"str", "None"}.  The     *)
(* object returned by inference_client.chat.completions.create is a record *)
(* of the attributes the code probes (choices, message, content, text) and *)
(* of its str() rendering.                                                 *)
(***************************************************************************)
EXTENDS Integers, Sequences, FiniteSets, TLC

\* ---------------------------------------------------------------- bounds
\* largest max_iters override tried besides the default MAX_ITERS
MaxBudget == 3
\* the overrides tried go down to -NegBudget
NegBudget == 1

\* ------------------------------------------------------------- constants
\* main.py:21
MAX_ITERS == 4

\* main.py:32-37
REQUIRED_SECTIONS == <<"Top 3 trends", "Competitor analysis", "Actionable insight", "Sources">>

\* -------------------------------------------------------- Python strings
UpperLetters == <<"A", "B", "C", "D", "E", "F", "G", "H", "I", "J", "K", "L", "M", "N", "O", "P", "Q", "R", "S", "T", "U", "V", "W", "X", "Y", "Z">>
LowerLetters == <<"a", "b", "c", "d", "e", "f", "g", "h", "i", "j", "k", "l", "m", "n", "o", "p", "q", "r", "s", "t", "u", "v", "w", "x", "y", "z">>

IndexOf(c, letters) == CHOOSE k \in 1..Len(letters) : letters[k] = c

IsIn(c, letters) == \E k \in 1..Len(letters) : letters[k] = c

\* str.lower() on one character (ASCII letters)
LowerChar(c) == IF IsIn(c, UpperLetters) THEN LowerLetters[IndexOf(c, UpperLetters)] ELSE c

\* str.upper() on one character (ASCII letters)
UpperChar(c) == IF IsIn(c, LowerLetters) THEN UpperLetters[IndexOf(c, LowerLetters)] ELSE c

\* str.lower()
Lower(s) == [k \in 1..Len(s) |-> LowerChar(s[k])]

\* str.upper()
Upper(s) == [k \in 1..Len(s) |-> UpperChar(s[k])]

\* s.startswith(sub)
StartsWith(sub, s) == Len(sub) <= Len(s) /\ \A j \in 1..Len(sub) : s[j] = sub[j]

\* sub in s
Contains(sub, s) == \E k \in 0..(Len(s) - Len(sub)) : \A j \in 1..Len(sub) : s[k + j] = sub[j]

Whitespace == {" ", "\n", "\t"}

\* str.strip()
Strip(s) ==
  LET keep == {k \in 1..Len(s) : s[k] \notin Whitespace}
  IN  IF keep = {} THEN << >>
      ELSE LET a == CHOOSE k \in keep : \A m \in keep : k <= m
               b == CHOOSE k \in keep : \A m \in keep : k >= m
           IN  SubSeq(s, a, b)

\* --------------------------------------------------------- Python values
PyStr(s) == [t |-> "str", v |-> s]
PyNone == [t |-> "None", v |-> << >>]
\* an attribute the object does not have (hasattr is False)
Absent == [t |-> "absent", v |-> << >>]
\* a local variable that has not been assigned yet
Unbound == [unbound |-> TRUE]

\* ------------------------------------------------------ the quality rubric
\* the substrings quality_check looks for, per rubric item (main.py:107-110)
Triggers ==
  ("Top 3 trends" :> {<<"t", "o", "p", " ", "3", " ", "t", "r", "e", "n", "d", "s">>, <<"t", "o", "p", " ", "3">>}) @@
  ("Competitor analysis" :> {<<"c", "o", "m", "p", "e", "t", "i", "t", "o", "r", " ", "a", "n", "a", "l", "y", "s", "i", "s">>, <<"c", "o", "m", "p", "e", "t", "i", "t", "o", "r">>}) @@
  ("Actionable insight" :> {<<"a", "c", "t", "i", "o", "n", "a", "b", "l", "e", " ", "i", "n", "s", "i", "g", "h", "t">>, <<"a", "c", "t", "i", "o", "n", "a", "b", "l", "e">>}) @@
  ("Sources" :> {<<"s", "o", "u", "r", "c", "e">>, <<"s", "o", "u", "r", "c", "e", "s">>})

\* the keys of the checks dict, in insertion order (main.py:107-110)
CheckOrder == <<"Top 3 trends", "Competitor analysis", "Actionable insight", "Sources">>

Items == DOMAIN Triggers

\* any(checks.values())
AnyValue(checks) == \E x \in DOMAIN checks : checks[x]
\* all(checks.values()) (main.py:111)
AllValues(checks) == \A x \in DOMAIN checks : checks[x]

\* the response searched as it is
NoFold(response) == response

\* the text the evaluator searches: response.lower() (main.py:105)
SearchText(response) == Lower(response)

\* quality_check(response) -> (success, checks)
quality_check(response) ==
  LET lower == SearchText(response)
      checks == [x \in Items |-> \E p \in Triggers[x] : Contains(p, lower)]
  IN  [success |-> AllValues(checks), checks |-> checks]

\* ------------------------------------------- replies of the inference API
\* One reply of inference_client.chat.completions.create: either the call
\* raises (transport error) or it returns an object resp, of which the code
\* probes: resp.choices ("absent": no such attribute, "null": None, "empty":
\* [], "list": at least one choice), choices[0].message ("absent", "null",
\* "obj"), message.content and choices[0].text (Absent, PyNone or a string),
\* and str(resp).
Raw(choices, message, content, text, repr) ==
  [choices |-> choices, message |-> message, content |-> content, text |-> text, repr |-> repr]

Returned(resp) == [raised |-> FALSE, resp |-> resp]
TransportError == [raised |-> TRUE, resp |-> Raw("absent", "absent", Absent, Absent, << >>)]

ReprPlain == <<"<", "r", "e", "s", "p", ">">>
ReprPadded == <<" ", "<", "r", "e", "s", "p", ">", "\n">>
ReprRubric == <<"{", "'", "o", "u", "t", "'", ":", " ", "'", "T", "O", "P", " ", "3", ",", " ", "c", "o", "m", "p", "e", "t", "i", "t", "o", "r", ",", " ", "a", "c", "t", "i", "o", "n", "a", "b", "l", "e", ",", " ", "s", "o", "u", "r", "c", "e", "'", "}">>

\* the fragments a generated text is made of: per rubric item, a near miss
\* that holds no trigger phrase (1), the phrase as the prompt asks for it (2)
\* and its looser synonym in upper case (3)
Fragment ==
  <<  <<<<"T", "o", "p", " ", "t", "h", "r", "e", "e", ".", " ">>, <<"T", "o", "p", " ", "3", " ", "t", "r", "e", "n", "d", "s", ":", " ", "A", ",", " ", "B", ".", " ">>, <<"T", "O", "P", " ", "3", ".", " ">>>>,
      <<<<"C", "o", "m", "p", "e", "t", "i", "t", "i", "o", "n", ".", " ">>, <<"C", "o", "m", "p", "e", "t", "i", "t", "o", "r", " ", "a", "n", "a", "l", "y", "s", "i", "s", ":", " ", "X", ".", " ">>, <<"C", "O", "M", "P", "E", "T", "I", "T", "O", "R", ".", " ">>>>,
      <<<<"A", "c", "t", "i", "o", "n", "s", ".", " ">>, <<"A", "c", "t", "i", "o", "n", "a", "b", "l", "e", " ", "i", "n", "s", "i", "g", "h", "t", ":", " ", "d", "o", " ", "Y", ".", " ">>, <<"A", "C", "T", "I", "O", "N", "A", "B", "L", "E", ".", " ">>>>,
      <<<<"R", "e", "f", "e", "r", "e", "n", "c", "e", "s", ".">>, <<"S", "o", "u", "r", "c", "e", "s", ":", " ", "r", "e", "p", "o", "r", "t", "s", ".">>, <<"S", "O", "U", "R", "C", "E", ".">>>>  >>

Text(sel) == Fragment[1][sel[1]] \o Fragment[2][sel[2]] \o Fragment[3][sel[3]] \o Fragment[4][sel[4]]

Texts == {Text(sel) : sel \in [1..4 -> 1..3]}

TextAll == Text(<<2, 2, 2, 2>>)
TextNone == <<"H", "e", "r", "e", " ", "a", "r", "e", " ", "s", "o", "m", "e", " ", "t", "r", "e", "n", "d", "s", ".">>

\* well-formed replies: chat shape (message.content) and completion shape (text)
ChatReply(s) == Returned(Raw("list", "obj", PyStr(s), Absent, ReprPlain))
TextReply(s) == Returned(Raw("list", "absent", Absent, PyStr(s), ReprPlain))

\* the texts the task model answers with in the loop: the full brief, the
\* brief in loose upper-case synonyms, a brief missing two sections, and a
\* text with no section at all
LoopTexts == {TextAll, Text(<<3, 3, 3, 3>>), Text(<<3, 1, 2, 1>>), TextNone}

\* replies with no usable choices / message / content
MalformedTaskReplies ==
  { Returned(Raw("absent", "absent", Absent, Absent, ReprRubric)),
    Returned(Raw("null", "absent", Absent, Absent, ReprPlain)),
    Returned(Raw("empty", "absent", Absent, Absent, ReprPlain)),
    Returned(Raw("list", "absent", Absent, Absent, ReprPadded)),
    Returned(Raw("list", "null", Absent, Absent, ReprPlain)),
    Returned(Raw("list", "obj", Absent, Absent, ReprPlain)),
    Returned(Raw("list", "obj", PyNone, Absent, ReprPlain)),
    Returned(Raw("list", "absent", Absent, PyNone, ReprPlain)) }

\* what the task model may answer
TaskReplies ==
  {TransportError} \cup {ChatReply(s) : s \in LoopTexts} \cup
  {TextReply(TextAll), Returned(Raw("list", "obj", Absent, PyStr(TextNone), ReprPlain))} \cup
  MalformedTaskReplies

Prompt0 == <<"B", "r", "i", "e", "f">>
Prompt1 == <<" ", "B", "r", "i", "e", "f", ",", " ", "w", "i", "t", "h", " ", "s", "o", "u", "r", "c", "e", "s", " ", "\n">>

InitialPrompts == {Prompt0, Prompt1}

MalformedMetaReplies ==
  { Returned(Raw("absent", "absent", Absent, Absent, ReprPadded)),
    Returned(Raw("null", "absent", Absent, Absent, ReprPlain)),
    Returned(Raw("list", "obj", PyNone, Absent, ReprPlain)),
    TextReply(Prompt0) }

\* what the meta model may answer
MetaReplies ==
  {TransportError} \cup {ChatReply(s) : s \in {Prompt0, Prompt1}} \cup MalformedMetaReplies

\* ------------------------------------------------------------ the functions
\* resp.choices[0].message.content (main.py:56, main.py:98): its value, or
\* the exception the attribute chain raises
FirstChoiceContent(resp) ==
  IF resp.choices = "list" /\ resp.message = "obj" /\ resp.content # Absent
  THEN [exc |-> "none", val |-> resp.content]
  ELSE [exc |-> "Exception", val |-> PyNone]

\* task_llm_call_gradient(prompt): reply is what the client does for this call
task_llm_call_gradient(prompt, reply) ==
  IF reply.raised
  THEN [exc |-> "ConnectionError", val |-> PyNone]
  ELSE LET resp == reply.resp
           first == FirstChoiceContent(resp)
       IN  IF first.exc = "none" THEN first
           ELSE IF resp.choices = "null" THEN [exc |-> "TypeError", val |-> PyNone]
           ELSE IF resp.choices = "list"
                THEN IF resp.message = "obj" /\ resp.content # Absent
                     THEN [exc |-> "none", val |-> resp.content]
                     ELSE IF resp.text # Absent
                          THEN [exc |-> "none", val |-> resp.text]
                          ELSE [exc |-> "none", val |-> PyStr(resp.repr)]
                ELSE [exc |-> "none", val |-> PyStr(resp.repr)]

\* the keys of checks whose value is true
passed(checks) == SelectSeq(CheckOrder, LAMBDA k : checks[k])

\* failed = [k for k, ok in checks.items() if not ok]
failed(checks) == SelectSeq(CheckOrder, LAMBDA k : ~checks[k])

\* the characters of the keys of the checks dict (main.py:107-110)
KeyChars ==
  ("Top 3 trends" :> <<"T", "o", "p", " ", "3", " ", "t", "r", "e", "n", "d", "s">>) @@
  ("Competitor analysis" :> <<"C", "o", "m", "p", "e", "t", "i", "t", "o", "r", " ", "a", "n", "a", "l", "y", "s", "i", "s">>) @@
  ("Actionable insight" :> <<"A", "c", "t", "i", "o", "n", "a", "b", "l", "e", " ", "i", "n", "s", "i", "g", "h", "t">>) @@
  ("Sources" :> <<"S", "o", "u", "r", "c", "e", "s">>)

\* ", ".join(keys)
RECURSIVE JoinKeys(_)
JoinKeys(keys) ==
  IF keys = << >> THEN << >>
  ELSE IF Len(keys) = 1 THEN KeyChars[keys[1]]
  ELSE KeyChars[keys[1]] \o <<",", " ">> \o JoinKeys(Tail(keys))

\* the instruction with the prompt and the response in each other's place
InstructionSwapped(original_prompt, response, checks) ==
  [ORIGINAL_PROMPT |-> response,
   RESPONSE |-> original_prompt,
   MISSING_OR_INCOMPLETE_SECTIONS |->
     IF failed(checks) # << >> THEN JoinKeys(failed(checks)) ELSE <<"n", "o", "n", "e">>]

\* the parts of the instruction that depend on the arguments (main.py:76-78)
instruction(original_prompt, response, checks) ==
  [ORIGINAL_PROMPT |-> original_prompt,
   RESPONSE |-> response,
   MISSING_OR_INCOMPLETE_SECTIONS |->
     IF failed(checks) # << >> THEN JoinKeys(failed(checks)) ELSE <<"n", "o", "n", "e">>]

\* the fallback of the rewriter without the trim
RawFallback(resp) == PyStr(resp.repr)

\* str(resp).strip() (main.py:101)
StrippedFallback(resp) == PyStr(Strip(resp.repr))

\* meta_rewrite_prompt_gradient(original_prompt, response, checks)
meta_rewrite_prompt_gradient(original_prompt, response, checks, reply) ==
  IF reply.raised
  THEN [exc |-> "ConnectionError", val |-> PyNone]
  ELSE LET resp == reply.resp
           first == FirstChoiceContent(resp)
       IN  IF first.exc = "none" /\ first.val.t = "str"
           THEN [exc |-> "none", val |-> PyStr(Strip(first.val.v))]
           ELSE [exc |-> "none", val |-> StrippedFallback(resp)]

\* the credential test left out
KeyCheckSkipped(k) == FALSE

\* not MODEL_ACCESS_KEY (main.py:25), k: the variable is set
KeyMissing(k) == ~k

\* the improved prompt dropped
KeepPrompt(current, improved_prompt) == current

\* prompt = improved (main.py:138)
NextPrompt(current, improved_prompt) == improved_prompt

\* the success return never taken
AcceptedNever(success) == FALSE

\* if ok: (main.py:128)
Accepted(success) == success

\* for i in range(1, max_iters + 1), with i the last value taken (0: none yet)
RangeOneTooMany(i, n) == i <= n
RangeHasNext(i, n) == i < n

\* the dict self_improving_loop returns
Outcome(response, iterations, checks) ==
  [response |-> response, iterations |-> iterations, checks |-> checks]

\* the outcome of the success return with the iteration count off by one
AcceptedOutcomeStale(response, iter, checks) == Outcome(response, iter - 1, checks)

\* return {"response": response, "iterations": i, "checks": checks} (main.py:130)
AcceptedOutcome(response, iter, checks) == Outcome(response, iter, checks)

NoResult == [none |-> TRUE]

\* ------------------------------------------------------------------ state
VARIABLES
  key,            \* GRADIENT_MODEL_ACCESS_KEY is set
  initial_prompt, \* argument of self_improving_loop
  max_iters,      \* argument of self_improving_loop
  pc,             \* where the program is
  i,              \* the loop variable (0: not assigned yet)
  prompt,
  last_response,
  response,
  ok,
  checks,
  improved,
  result,         \* what self_improving_loop returned
  exc,            \* the exception the program ended with, and where it rose
  genCalls,       \* number of task_llm_call_gradient calls made
  rwCalls,        \* number of meta_rewrite_prompt_gradient calls made
  genReply,       \* what the client did in the last generation call
  genArg,         \* the prompt passed to the last generation call
  rwReply,        \* what the client did in the last rewrite call
  rwArgs,         \* the arguments of the last rewrite call
  rwIter,         \* the iteration the last rewrite call was made in
  verdicts        \* the successes reported by quality_check so far, in order

vars == <<key, initial_prompt, max_iters, pc, i, prompt, last_response, response, ok,
          checks, improved, result, exc, genCalls, rwCalls, genReply, genArg,
          rwReply, rwArgs, rwIter, verdicts>>

loopVars == <<prompt, last_response, response, ok, checks, improved>>
callVars == <<genCalls, rwCalls, genReply, genArg, rwReply, rwArgs, rwIter>>
inputVars == <<key, initial_prompt, max_iters>>

NoExc == [type |-> "none", at |-> "none"]

Budgets == ((0 - NegBudget)..MaxBudget) \cup {MAX_ITERS}

Init ==
  /\ key \in BOOLEAN
  /\ initial_prompt \in InitialPrompts
  /\ max_iters \in Budgets
  /\ pc = "Import"
  /\ i = 0
  /\ prompt = Unbound
  /\ last_response = Unbound
  /\ response = Unbound
  /\ ok = FALSE
  /\ checks = Unbound
  /\ improved = Unbound
  /\ result = NoResult
  /\ exc = NoExc
  /\ genCalls = 0
  /\ rwCalls = 0
  /\ genReply = Unbound
  /\ genArg = Unbound
  /\ rwReply = Unbound
  /\ rwArgs = Unbound
  /\ rwIter = 0
  /\ verdicts = << >>

\* module load (main.py:24-29), then the call of self_improving_loop up to
\* the loop (main.py:116-117)
LoadModule ==
  /\ pc = "Import"
  /\ IF ~KeyMissing(key)
     THEN /\ pc' = "LoopHead"
          /\ prompt' = PyStr(initial_prompt)
          /\ last_response' = PyStr(<< >>)
          /\ exc' = exc
     ELSE /\ pc' = "Raised"
          /\ exc' = [type |-> "RuntimeError", at |-> "import"]
          /\ UNCHANGED <<prompt, last_response>>
  /\ UNCHANGED <<i, response, ok, checks, improved, result, verdicts>>
  /\ UNCHANGED callVars
  /\ UNCHANGED inputVars

\* the head of the for loop (main.py:118) and, when the range is used up,
\* the final return (main.py:140-141)
ForNext ==
  /\ pc = "LoopHead"
  /\ IF RangeHasNext(i, max_iters)
     THEN /\ i' = i + 1
          /\ pc' = "Generating"
          /\ UNCHANGED <<result, exc>>
     ELSE /\ i' = i
          /\ IF checks = Unbound
             THEN /\ pc' = "Raised"
                  /\ exc' = [type |-> "UnboundLocalError", at |-> "self_improving_loop"]
                  /\ result' = result
             ELSE /\ pc' = "Exhausted"
                  /\ result' = Outcome(last_response, max_iters, checks)
                  /\ exc' = exc
  /\ UNCHANGED loopVars
  /\ UNCHANGED verdicts
  /\ UNCHANGED callVars
  /\ UNCHANGED inputVars

\* response = task_llm_call_gradient(prompt) (main.py:121)
Generate ==
  /\ pc = "Generating"
  /\ \E reply \in TaskReplies :
       LET r == task_llm_call_gradient(prompt.v, reply)
       IN  /\ genCalls' = genCalls + 1
           /\ genReply' = reply
           /\ genArg' = prompt
           /\ IF r.exc = "none"
              THEN /\ response' = r.val
                   /\ pc' = "Evaluating"
                   /\ exc' = exc
              ELSE /\ response' = response
                   /\ pc' = "Raised"
                   /\ exc' = [type |-> r.exc, at |-> "task_llm_call_gradient"]
  /\ UNCHANGED <<i, prompt, last_response, ok, checks, improved, result, verdicts>>
  /\ UNCHANGED <<rwCalls, rwReply, rwArgs, rwIter>>
  /\ UNCHANGED inputVars

\* print(response[:3000]); quality_check; the success return (main.py:123-130)
Evaluate ==
  /\ pc = "Evaluating"
  /\ IF response.t # "str"
     THEN /\ pc' = "Raised"
          /\ exc' = [type |-> "TypeError", at |-> "self_improving_loop"]
          /\ UNCHANGED <<ok, checks, last_response, result, verdicts>>
     ELSE LET qc == quality_check(response.v)
          IN  /\ ok' = qc.success
              /\ verdicts' = Append(verdicts, qc.success)
              /\ checks' = qc.checks
              /\ last_response' = response
              /\ exc' = exc
              /\ IF Accepted(qc.success)
                 THEN /\ pc' = "Succeeded"
                      /\ result' = AcceptedOutcome(response, i, qc.checks)
                 ELSE /\ pc' = "Rewriting"
                      /\ result' = result
  /\ UNCHANGED <<i, prompt, response, improved>>
  /\ UNCHANGED callVars
  /\ UNCHANGED inputVars

\* improved = meta_rewrite_prompt_gradient(prompt, response, checks);
\* prompt = improved (main.py:134-138)
Rewrite ==
  /\ pc = "Rewriting"
  /\ \E reply \in MetaReplies :
       LET r == meta_rewrite_prompt_gradient(prompt.v, response.v, checks, reply)
       IN  /\ rwCalls' = rwCalls + 1
           /\ rwReply' = reply
           /\ rwArgs' = instruction(prompt.v, response.v, checks)
           /\ rwIter' = i
           /\ IF r.exc = "none"
              THEN /\ improved' = r.val
                   /\ prompt' = NextPrompt(prompt, r.val)
                   /\ pc' = "LoopHead"
                   /\ exc' = exc
              ELSE /\ UNCHANGED <<improved, prompt>>
                   /\ pc' = "Raised"
                   /\ exc' = [type |-> r.exc, at |-> "meta_rewrite_prompt_gradient"]
  /\ UNCHANGED <<i, last_response, response, ok, checks, result, verdicts>>
  /\ UNCHANGED <<genCalls, genReply, genArg>>
  /\ UNCHANGED inputVars

Next == LoadModule \/ ForNext \/ Generate \/ Evaluate \/ Rewrite

Spec == Init /\ [][Next]_vars

Terminal == {"Succeeded", "Exhausted", "Raised"}

TypeOK ==
  /\ pc \in {"Import", "LoopHead", "Generating", "Evaluating", "Rewriting"} \cup Terminal
  /\ i \in 0..(MaxBudget + MAX_ITERS)
  /\ genCalls \in 0..(MaxBudget + MAX_ITERS)
  /\ rwCalls \in 0..(MaxBudget + MAX_ITERS)

\* ------------------------------------------------ quality_check on its own
\* the responses quality_check is applied to: every text, as written, in
\* upper case and in lower case
QcInputs == UNION {{s, Upper(s), Lower(s)} : s \in Texts \cup {TextNone}}

QcInit ==
  /\ key = TRUE
  /\ initial_prompt = Prompt0
  /\ max_iters = MAX_ITERS
  /\ pc = "quality_check"
  /\ i = 0
  /\ prompt = Unbound
  /\ last_response = Unbound
  /\ response \in {PyStr(s) : s \in QcInputs}
  /\ ok = FALSE
  /\ checks = Unbound
  /\ improved = Unbound
  /\ result = NoResult
  /\ exc = NoExc
  /\ genCalls = 0
  /\ rwCalls = 0
  /\ genReply = Unbound
  /\ genArg = Unbound
  /\ rwReply = Unbound
  /\ rwArgs = Unbound
  /\ rwIter = 0
  /\ verdicts = << >>

\* ok, checks = quality_check(response)
QcApply ==
  /\ pc = "quality_check"
  /\ ok' = quality_check(response.v).success
  /\ checks' = quality_check(response.v).checks
  /\ pc' = "quality_checked"
  /\ UNCHANGED <<i, prompt, last_response, response, improved, result, exc, verdicts>>
  /\ UNCHANGED callVars
  /\ UNCHANGED inputVars

\* the instruction meta_rewrite_prompt_gradient builds from these checks
\* (main.py:71-85)
QcInstruct ==
  /\ pc = "quality_checked"
  /\ rwArgs' = instruction(Prompt0, response.v, checks)
  /\ pc' = "instructed"
  /\ UNCHANGED <<genCalls, rwCalls, genReply, genArg, rwReply, rwIter>>
  /\ UNCHANGED loopVars
  /\ UNCHANGED <<i, result, exc, verdicts>>
  /\ UNCHANGED inputVars

QcNext == QcApply \/ QcInstruct

QcSpec == QcInit /\ [][QcNext]_vars

\* ----------------------------------------------------------------- claims
AllFalse(seq) == \A k \in 1..Len(seq) : ~seq[k]

\* C1: one run makes at most max_iters generation calls; the iteration
\* counter counts the generation calls (it is one ahead only while the call
\* of its iteration is still to be made), grows by one at a time, never
\* decreases and, once the loop has given it a value, never exceeds max_iters.
C1_IterationsBounded ==
  /\ [](/\ (i > 0 => i <= max_iters)
        /\ genCalls = (IF pc = "Generating" THEN i - 1 ELSE i)
        /\ (genCalls > 0 => genCalls <= max_iters))
  /\ [][/\ i' \in {i, i + 1}
        /\ genCalls' \in {genCalls, genCalls + 1}
        /\ (genCalls' = genCalls + 1 => genCalls' = i')]_vars

\* the whole default budget has been spent on generation calls
C1_Witness == pc = "Exhausted" /\ max_iters = MAX_ITERS /\ genCalls = MAX_ITERS

\* C2: when quality_check reports success on the response of iteration k,
\* the loop is at once in its success return: the outcome holds that
\* response, iterations = k and all-true checks, iterations 1..k-1 made one
\* rewrite call each and iteration k none, and no call follows.
C2_SuccessReturnsAtOnce ==
  /\ []((Len(verdicts) > 0 /\ verdicts[Len(verdicts)]) =>
          /\ pc = "Succeeded"
          /\ Len(verdicts) \in 1..max_iters
          /\ genCalls = Len(verdicts)
          /\ result = Outcome(task_llm_call_gradient(genArg.v, genReply).val,
                              Len(verdicts), [x \in Items |-> TRUE])
          /\ rwCalls = Len(verdicts) - 1
          /\ rwIter < Len(verdicts))
  /\ [][pc # "Succeeded"]_vars

\* success in the second iteration, after one rewrite
C2_Witness == pc = "Succeeded" /\ Len(verdicts) = 2 /\ rwCalls = 1 /\ result.iterations = 2

\* C3 (as claimed): once the evaluator has rejected the response of each of
\* the max_iters iterations, the run ends only by returning iterations =
\* max_iters with the response and the checks of the last generation call.
C3_AsClaimed ==
  (max_iters >= 1 /\ Len(verdicts) = max_iters /\ AllFalse(verdicts) /\ pc \in Terminal) =>
     /\ pc = "Exhausted"
     /\ result.iterations = max_iters
     /\ result.response = task_llm_call_gradient(genArg.v, genReply).val
     /\ result.checks = quality_check(result.response.v).checks

\* C4 (as claimed): the final iteration makes no rewrite call, so a run makes
\* at most 2 * max_iters - 1 calls.
C4_AsClaimed ==
  /\ (rwCalls > 0 => rwIter < max_iters)
  /\ (max_iters >= 1 => genCalls + rwCalls <= 2 * max_iters - 1)

\* C5 (as claimed): the two calls never raise, the generation call returns a
\* string, and a run that has made a call does not end by an exception.
C5_AsClaimed ==
  /\ exc.at \notin {"task_llm_call_gradient", "meta_rewrite_prompt_gradient"}
  /\ (pc = "Evaluating" => response.t = "str")
  /\ (genCalls + rwCalls > 0 => pc # "Raised")

\* the reply has no message content and no text in a first choice
LacksContentField(resp) ==
  ~(resp.choices = "list" /\ ((resp.message = "obj" /\ resp.content # Absent) \/ resp.text # Absent))

\* C6 (as claimed): after a generation call whose reply lacks any content
\* field, the response is str(resp), a non-empty string, and neither the
\* call nor the evaluation of that response raises.
C6_AsClaimed ==
  (genCalls > 0 /\ ~genReply.raised /\ LacksContentField(genReply.resp) /\ rwCalls < genCalls) =>
     /\ pc # "Raised"
     /\ response = PyStr(genReply.resp.repr)
     /\ Len(response.v) > 0

\* the reply has a first choice whose message content is a string
UsableContent(resp) == resp.choices = "list" /\ resp.message = "obj" /\ resp.content.t = "str"

\* t is s without its leading and trailing whitespace
IsTrimOf(t, s) ==
  /\ \E a \in 0..Len(s) : \E b \in 0..(Len(s) - a) :
       /\ Len(t) = Len(s) - a - b
       /\ \A k \in 1..Len(t) : t[k] = s[a + k]
       /\ \A k \in 1..a : s[k] \in Whitespace
       /\ \A k \in (Len(s) - b + 1)..Len(s) : s[k] \in Whitespace
  /\ (Len(t) > 0 => t[1] \notin Whitespace /\ t[Len(t)] \notin Whitespace)

\* C7: when the rewrite call gets a reply without usable content, it does not
\* raise, it returns str(resp) trimmed, and that string is the prompt of the
\* next generation call.
C7_MalformedRewriteBecomesPrompt ==
  (rwCalls > 0 /\ ~rwReply.raised /\ ~UsableContent(rwReply.resp)) =>
     /\ exc.at # "meta_rewrite_prompt_gradient"
     /\ improved.t = "str"
     /\ IsTrimOf(improved.v, rwReply.resp.repr)
     /\ (genCalls > rwCalls => genArg = improved)

\* a generation call was sent the trimmed str() of a malformed rewrite reply
C7_Witness ==
  /\ rwCalls = 1 /\ genCalls = 2 /\ pc = "Evaluating"
  /\ ~rwReply.raised /\ ~UsableContent(rwReply.resp)
  /\ rwReply.resp.repr = ReprPadded
  /\ genArg.v # ReprPadded

\* C8: a returned outcome has all checks true exactly when the run ended by
\* the success return; an outcome of the exhausted budget has a false check;
\* the checks returned are the evaluator's result for the response returned.
C8_NoSilentSuccess ==
  /\ (result # NoResult) = (pc \in {"Succeeded", "Exhausted"})
  /\ (result # NoResult =>
        /\ (\A x \in Items : result.checks[x]) = (pc = "Succeeded")
        /\ (pc = "Exhausted" => \E x \in Items : ~result.checks[x])
        /\ result.response.t = "str"
        /\ result.checks = quality_check(result.response.v).checks)

\* the budget ran out on a response that passes some checks but not all
C8_Witness ==
  /\ pc = "Exhausted"
  /\ \E x \in Items : result.checks[x]
  /\ \E x \in Items : ~result.checks[x]

\* C9 (as claimed): while every external call returns, a run of the loop
\* with a budget of at least one ends only in Succeeded or Exhausted.
C9_AsClaimed ==
  (max_iters >= 1 /\ pc = "Raised" /\ exc.at # "import") => exc.type = "ConnectionError"

\* a and b are the same character up to the case of a letter
SameLetter(a, b) ==
  \/ a = b
  \/ \E n \in 1..Len(UpperLetters) : {a, b} = {UpperLetters[n], LowerLetters[n]}

\* phrase occurs in s, case-insensitively
ContainsCI(phrase, s) ==
  \E k \in 0..(Len(s) - Len(phrase)) : \A j \in 1..Len(phrase) : SameLetter(s[k + j], phrase[j])

\* C10: quality_check reports success for every response that holds, in any
\* case, a trigger phrase of each of the four items; success is the
\* conjunction of the four results; the case of the response changes nothing.
C10_AllPhrasesAccepted ==
  pc = "quality_checked" =>
     /\ DOMAIN checks = {REQUIRED_SECTIONS[k] : k \in 1..Len(REQUIRED_SECTIONS)}
     /\ ((\A x \in Items : \E p \in Triggers[x] : ContainsCI(p, response.v)) => ok)
     /\ ok = (\A x \in Items : checks[x])
     /\ quality_check(Upper(response.v)) = [success |-> ok, checks |-> checks]
     /\ quality_check(Lower(response.v)) = [success |-> ok, checks |-> checks]

\* the brief written in upper-case synonyms only is accepted
C10_Witness == pc = "quality_checked" /\ response = PyStr(Text(<<3, 3, 3, 3>>)) /\ ok

\* the rubric items none of whose trigger phrases occurs in s, in any case
AbsentItems(s) == {x \in Items : \A p \in Triggers[x] : ~ContainsCI(p, s)}

\* C11: for a response that lacks the trigger phrases of at least one rubric
\* item quality_check reports no success, and the items it marks false are
\* exactly the items none of whose trigger phrases occurs in the response.
C11_FailedItemsAreTheAbsentOnes ==
  pc = "quality_checked" =>
     /\ {x \in Items : ~checks[x]} = AbsentItems(response.v)
     /\ (AbsentItems(response.v) # {} => ~ok)

\* a response that has two of the four sections, neither of them first in the text
C11_Witness ==
  /\ pc = "quality_checked"
  /\ response = PyStr(Text(<<1, 3, 2, 1>>))
  /\ {x \in Items : ~checks[x]} = {"Top 3 trends", "Sources"}
  /\ ~ok

\* C12: one run makes at most 2 * max_iters calls of the inference service,
\* generation and rewrite calls together (2 * MAX_ITERS with the default
\* budget), and none at all with a budget below one.
C12_AtMostTwoCallsPerIteration ==
  /\ rwCalls <= genCalls
  /\ (max_iters >= 0 => genCalls + rwCalls <= 2 * max_iters)
  /\ (max_iters < 0 => genCalls + rwCalls = 0)
  /\ (max_iters = MAX_ITERS => genCalls + rwCalls <= 2 * MAX_ITERS)

\* a run with the default budget that made all 2 * MAX_ITERS calls
C12_Witness == max_iters = MAX_ITERS /\ genCalls + rwCalls = 2 * MAX_ITERS /\ pc = "Exhausted"

\* C13: without the credential the program ends at module load with an
\* error; the loop never begins and no generation or rewrite call is made.
C13_NoCredentialNoLoop ==
  ~key =>
     /\ pc \in {"Import", "Raised"}
     /\ (pc = "Raised" => exc = [type |-> "RuntimeError", at |-> "import"])
     /\ genCalls = 0 /\ rwCalls = 0 /\ i = 0
     /\ prompt = Unbound /\ result = NoResult

\* the module load has failed for want of the credential
C13_Witness == ~key /\ pc = "Raised" /\ exc.type = "RuntimeError"

\* C14: the first generation call is sent the caller's initial prompt, the
\* generation call of iteration k + 1 is sent what the rewrite call of
\* iteration k returned, and only a rewrite (after the initial assignment)
\* changes the current prompt.
C14_PromptThreading ==
  /\ [](/\ (genCalls = 1 => genArg = PyStr(initial_prompt))
        /\ ((genCalls > 1 /\ rwCalls = genCalls - 1) =>
              /\ rwIter = genCalls - 1
              /\ genArg = meta_rewrite_prompt_gradient(rwArgs.ORIGINAL_PROMPT, rwArgs.RESPONSE,
                                                       checks, rwReply).val))
  /\ [][prompt' # prompt => (pc = "Import" \/ (pc = "Rewriting" /\ rwCalls' = rwCalls + 1))]_vars

\* the second generation call was sent a rewritten prompt
C14_Witness ==
  /\ genCalls = 2 /\ rwCalls = 1 /\ pc = "Evaluating"
  /\ genArg # PyStr(initial_prompt)
  /\ genArg = improved

\* C15: a step makes at most one call; a generation call is made only when
\* every earlier iteration has had its generation, its rejected evaluation
\* and its one rewrite; an evaluation follows the generation call of its
\* iteration; a rewrite call is made only after the evaluation of this
\* iteration's response has failed, with a non-empty list of failed items.
C15_CallOrder ==
  [][/\ (genCalls' # genCalls =>
           /\ genCalls' = genCalls + 1 /\ rwCalls' = rwCalls /\ verdicts' = verdicts
           /\ rwCalls = genCalls /\ Len(verdicts) = genCalls /\ AllFalse(verdicts))
     /\ (verdicts' # verdicts =>
           /\ Len(verdicts') = genCalls /\ Len(verdicts) = genCalls - 1
           /\ rwCalls = genCalls - 1
           /\ genCalls' = genCalls /\ rwCalls' = rwCalls)
     /\ (rwCalls' # rwCalls =>
           /\ rwCalls' = rwCalls + 1 /\ rwCalls' = genCalls /\ genCalls' = genCalls
           /\ Len(verdicts) = genCalls /\ ~verdicts[Len(verdicts)]
           /\ \E x \in Items : ~checks[x]
           /\ rwArgs'.MISSING_OR_INCOMPLETE_SECTIONS # <<"n", "o", "n", "e">>)]_vars

\* three generation calls with one rewrite call between each two
C15_Witness == genCalls = 3 /\ rwCalls = 2 /\ Len(verdicts) = 2 /\ pc = "Evaluating"

\* what the claimed priority gives for a reply: the message content of the
\* first choice, else its text, else str(resp)
ByPriority(resp) ==
  IF resp.choices = "list" /\ resp.message = "obj" /\ resp.content # Absent THEN resp.content
  ELSE IF resp.choices = "list" /\ resp.text # Absent THEN resp.text
  ELSE PyStr(resp.repr)

\* C16 (as claimed): for every reply the client returns, the generation call
\* does not raise and its result is the first choice's message content if it
\* has one, else the first choice's text if it has one, else str(resp).
C16_AsClaimed ==
  (genCalls > 0 /\ ~genReply.raised /\ rwCalls < genCalls) =>
     /\ exc.at # "task_llm_call_gradient"
     /\ response = ByPriority(genReply.resp)

\* C17: the list of missing sections in the rewriter's instruction names
\* exactly the rubric items whose check is false, and is "none" when no
\* check is false.
C17_MissingListsTheFailedItems ==
  pc = "instructed" =>
     /\ \A x \in Items :
          Contains(KeyChars[x], rwArgs.MISSING_OR_INCOMPLETE_SECTIONS) = ~checks[x]
     /\ ((\A x \in Items : checks[x]) = (rwArgs.MISSING_OR_INCOMPLETE_SECTIONS = <<"n", "o", "n", "e">>))

\* an instruction that lists two failed items out of four
C17_Witness ==
  /\ pc = "instructed"
  /\ response = PyStr(Text(<<1, 3, 2, 1>>))
  /\ rwArgs.MISSING_OR_INCOMPLETE_SECTIONS = <<"T", "o", "p", " ", "3", " ", "t", "r", "e", "n", "d", "s", ",", " ", "S", "o", "u", "r", "c", "e", "s">>

\* C18 (as claimed): whatever the budget, a run in which no call of the
\* inference service fails ends by returning one outcome with the keys
\* response, iterations and checks, never by raising.
C18_AsClaimed ==
  /\ exc.type # "UnboundLocalError"
  /\ ((key /\ pc \in Terminal /\ exc.type \notin {"ConnectionError", "TypeError"}) =>
        /\ pc \in {"Succeeded", "Exhausted"}
        /\ DOMAIN result = {"response", "iterations", "checks"})

\* C19: the rewrite call of an iteration gets the prompt that was sent to
\* the generation call of that iteration, the response that call returned
\* and the failed items of the evaluation of that response.
C19_RewriteGetsThisIteration ==
  (rwCalls > 0 /\ rwCalls = genCalls) =>
     /\ rwIter = genCalls
     /\ rwArgs.ORIGINAL_PROMPT = genArg.v
     /\ PyStr(rwArgs.RESPONSE) = task_llm_call_gradient(genArg.v, genReply).val
     /\ rwArgs.MISSING_OR_INCOMPLETE_SECTIONS =
          JoinKeys(SelectSeq(CheckOrder, LAMBDA k : ~quality_check(rwArgs.RESPONSE).checks[k]))

\* the rewrite call of the second iteration, made with a rewritten prompt
C19_Witness ==
  /\ rwCalls = 2 /\ genCalls = 2 /\ rwIter = 2
  /\ rwArgs.ORIGINAL_PROMPT # initial_prompt
  /\ rwArgs.ORIGINAL_PROMPT = genArg.v
=============================================================================
